---- MODULE Spec2Model ----
(***************************************************************************)
(* Chat-session store and page script of the Leo companion app             *)
(* (src/app.py): the per-user document of the users collection, the        *)
(* session helpers that update it, and the Streamlit page handlers that    *)
(* call them.                                                              *)
(*                                                                         *)
(* A session id is a uuid4 string in the code; here it is a positive       *)
(* integer drawn from a counter (every uuid is fresh), and 0 stands for    *)
(* "no id" (Python None / the field is missing from the document).         *)
(* datetime.now() reads the clock `now`; the clock advances only in the    *)
(* specifications that have a Tick action.                                 *)
(***************************************************************************)
EXTENDS Integers, Sequences, FiniteSets, TLC

VARIABLES
    db,         \* users_collection: username -> user document
    nextId,     \* number of uuids handed out so far
    pc,         \* per store client: position inside delete_chat_session
    loc,        \* per store client: locals of the running delete_chat_session
    page,       \* per browser tab: st.session_state
    appendLog,  \* history: per session id, the appends made to it while it existed
    last,       \* history: the last completed operation, with the state before it
    now,        \* the clock datetime.now() reads
    img,        \* the running or last call of generate_image
    chat,       \* the last synchronous call of generate_response
    conv,       \* the messages of the chat on screen and the list last sent
    stream,     \* the running streamed reply: the generator and its consumer
    confirm_delete  \* admin page: st.session_state.confirm_delete

\* the environment of the session store: the clock, the gateways, the admin page
envVars == <<now, img, chat, conv, stream, confirm_delete>>

vars == <<db, nextId, pc, loc, page, appendLog, last, envVars>>

(***************************************************************************)
(* Bounds of the model                                                     *)
(***************************************************************************)
MaxIds == 3         \* uuids handed out in one behaviour
MaxMsgs == 2        \* messages held by the whole store at one time
MaxPageMsgs == 4    \* the same, when the messages are sent from the page
MaxClock == 1       \* ticks of the clock
ApiMaxIds == 1      \* session ids allocated while the clock advances
ApiMaxMsgs == 1     \* messages stored while the clock advances

Users == {"alice", "bob"}
Passwords == {"pw1", "pw2"}
Roles == {"user", "assistant"}
Procs == {1, 2}
Tabs == {1, 2}

\* chat inputs of length 5, 30 and 31
Prompts ==
    { "hello",
      "abcdefghijklmnopqrstuvwxyz0123",
      "abcdefghijklmnopqrstuvwxyz01234" }
Replies == {"reply"}

NoSession == 0
SessionIds == 1..MaxIds
MissingField == "<missing>"
MissingFlag == -1
MissingStamp == -1

(***************************************************************************)
(* Documents                                                               *)
(***************************************************************************)
\* find_one returned None: there is no document with this _id
NoDoc ==
    [ exists |-> FALSE, password |-> MissingField, active |-> MissingFlag,
      created_at |-> MissingStamp, last_interaction |-> MissingStamp,
      chat_sessions |-> <<>>, current_session |-> NoSession ]

hash_password(password) == "sha256:" \o password

verify_password(stored_password, provided_password) ==
    stored_password = hash_password(provided_password)

\* the document insert_one writes on registration
RegisteredDoc(password) ==
    [ exists |-> TRUE, password |-> hash_password(password), active |-> 0,
      created_at |-> now, last_interaction |-> MissingStamp,
      chat_sessions |-> <<>>, current_session |-> NoSession ]

NewSession(session_id, title) ==
    [ session_id |-> session_id, title |-> title, created_at |-> now,
      messages |-> <<>>, last_interaction |-> now ]

SessionIdsOf(sessions) == { sessions[i].session_id : i \in 1..Len(sessions) }

\* index of the first session with this id, 0 when there is none
IndexOfId(sessions, session_id) ==
    IF session_id \in SessionIdsOf(sessions)
    THEN CHOOSE i \in 1..Len(sessions) :
            /\ sessions[i].session_id = session_id
            /\ \A j \in 1..(i - 1) : sessions[j].session_id # session_id
    ELSE 0

\* the array filter of $pull: the elements that do not match, in order
RECURSIVE Without(_, _)
Without(sessions, session_id) ==
    IF sessions = <<>> THEN <<>>
    ELSE IF Head(sessions).session_id = session_id
         THEN Without(Tail(sessions), session_id)
         ELSE <<Head(sessions)>> \o Without(Tail(sessions), session_id)

(***************************************************************************)
(* Session helpers: one store operation each                               *)
(***************************************************************************)
get_chat_sessions(d, username) ==
    IF d[username].exists THEN d[username].chat_sessions ELSE <<>>

get_current_session_id(d, username) ==
    IF d[username].exists THEN d[username].current_session ELSE NoSession

\* mutant: the upsert pushes the session and leaves current_session alone
create_new_chat_session_NoSet(d, username, session_id, title) ==
    LET old == d[username] IN
    [d EXCEPT ![username] =
        [ old EXCEPT
            !.exists = TRUE,
            !.chat_sessions = Append(old.chat_sessions, NewSession(session_id, title)),
            !.last_interaction = now ]]

\* mutant: the session is put in front of the list
create_new_chat_session_Front(d, username, session_id, title) ==
    LET old == d[username] IN
    [d EXCEPT ![username] =
        [ old EXCEPT
            !.exists = TRUE,
            !.chat_sessions = <<NewSession(session_id, title)>> \o old.chat_sessions,
            !.current_session = session_id,
            !.last_interaction = now ]]

\* update_one with upsert=True: $push the session, $set current_session
create_new_chat_session(d, username, session_id, title) ==
    LET old == d[username] IN
    [d EXCEPT ![username] =
        [ old EXCEPT
            !.exists = TRUE,
            !.chat_sessions = Append(old.chat_sessions, NewSession(session_id, title)),
            !.current_session = session_id,
            !.last_interaction = now ]]

\* mutant: the id is stored only when it names a session of the user
set_current_session_Validated(d, username, session_id) ==
    IF d[username].exists /\ session_id \in SessionIdsOf(d[username].chat_sessions)
    THEN [d EXCEPT ![username].current_session = session_id]
    ELSE d

\* mutant: the filter is empty, every record gets the id
set_current_session_AllUsers(d, username, session_id) ==
    [u \in DOMAIN d |->
        IF d[u].exists THEN [d[u] EXCEPT !.current_session = session_id] ELSE d[u]]

\* update_one without upsert: no document, no change
set_current_session(d, username, session_id) ==
    IF d[username].exists
    THEN [d EXCEPT ![username].current_session = session_id]
    ELSE d

\* mutant: the sessions left behind lose their messages
PullSession_ClearsOthers(d, username, session_id) ==
    IF d[username].exists
    THEN LET left == Without(d[username].chat_sessions, session_id) IN
         [d EXCEPT ![username].chat_sessions =
             [i \in 1..Len(left) |-> [left[i] EXCEPT !.messages = <<>>]]]
    ELSE d

\* the $pull of delete_chat_session
PullSession(d, username, session_id) ==
    IF d[username].exists
    THEN [d EXCEPT ![username].chat_sessions = Without(@, session_id)]
    ELSE d

\* the positional operator $ names the first array element the query matched
MatchedIndex(d, username, session_id) ==
    IF d[username].exists
    THEN IndexOfId(d[username].chat_sessions, session_id)
    ELSE 0

\* message = {"role": role, "content": content, "timestamp": datetime.now()}
Message(role, content) == [ role |-> role, content |-> content, timestamp |-> now ]

\* {"role": msg["role"], "content": msg["content"]}
RoleContent(msg) == [ role |-> msg.role, content |-> msg.content ]

RolesContents(messages) == [i \in 1..Len(messages) |-> RoleContent(messages[i])]

\* mutant: the message is put in front of the list
save_message_to_session_Prepend(d, username, session_id, role, content) ==
    LET i == MatchedIndex(d, username, session_id) IN
    IF i = 0 THEN d
    ELSE [d EXCEPT ![username].chat_sessions[i].messages =
              <<Message(role, content)>> \o @,
                   ![username].chat_sessions[i].last_interaction = now,
                   ![username].last_interaction = now]

\* mutant: $set of the list to the one message instead of $push
save_message_to_session_Replace(d, username, session_id, role, content) ==
    LET i == MatchedIndex(d, username, session_id) IN
    IF i = 0 THEN d
    ELSE [d EXCEPT ![username].chat_sessions[i].messages = <<Message(role, content)>>,
                   ![username].chat_sessions[i].last_interaction = now,
                   ![username].last_interaction = now]

\* mutant: the filter names the user only, so the user's last_interaction is
\* written also when no session matched
save_message_to_session_TouchUser(d, username, session_id, role, content) ==
    LET i == MatchedIndex(d, username, session_id) IN
    IF i = 0
    THEN IF d[username].exists
         THEN [d EXCEPT ![username].last_interaction = now]
         ELSE d
    ELSE [d EXCEPT ![username].chat_sessions[i].messages =
              Append(@, Message(role, content)),
                   ![username].chat_sessions[i].last_interaction = now,
                   ![username].last_interaction = now]

save_message_to_session(d, username, session_id, role, content) ==
    LET i == MatchedIndex(d, username, session_id) IN
    IF i = 0 THEN d
    ELSE [d EXCEPT ![username].chat_sessions[i].messages =
              Append(@, Message(role, content)),
                   ![username].chat_sessions[i].last_interaction = now,
                   ![username].last_interaction = now]

\* what save_message_to_session hands back to its caller: it has no return
\* statement and update_one does not raise when nothing matched
SaveMessageReturn(d, username, session_id) == "None"

\* how get_session_messages ends: it returns a list on every path, also when
\* no session of the user has the id
GetMessagesReturn(d, username, session_id) == "returned"

\* what set_current_session hands back: it has no return statement and
\* update_one does not raise when the id names no session
SetCurrentReturn(d, username, session_id) == "None"

\* how a helper ends when its store operation raises (the store is unreachable
\* or rejects the write): no helper has a try block, the exception leaves it
HelperOnStoreError(op) == "raised"

get_session_messages(d, username, session_id) ==
    LET i == MatchedIndex(d, username, session_id) IN
    IF i = 0 THEN <<>> ELSE d[username].chat_sessions[i].messages

\* mutant: the last remaining session is promoted
ReassignCurrent_Last(d, username, current_sessions, fresh_id) ==
    IF current_sessions # <<>>
    THEN set_current_session(d, username,
                             current_sessions[Len(current_sessions)].session_id)
    ELSE create_new_chat_session(d, username, fresh_id, "New Chat")

\* mutant: nothing is created when no session is left
ReassignCurrent_NoCreate(d, username, current_sessions, fresh_id) ==
    IF current_sessions # <<>>
    THEN set_current_session(d, username, current_sessions[1].session_id)
    ELSE d

\* the second half of delete_chat_session, given the list it read
ReassignCurrent(d, username, current_sessions, fresh_id) ==
    IF current_sessions # <<>>
    THEN set_current_session(d, username, current_sessions[1].session_id)
    ELSE create_new_chat_session(d, username, fresh_id, "New Chat")

RECURSIVE SumLen(_)
SumLen(sessions) ==
    IF sessions = <<>> THEN 0
    ELSE Len(Head(sessions).messages) + SumLen(Tail(sessions))

RECURSIVE TotalMsgsOver(_, _)
TotalMsgsOver(d, us) ==
    IF us = {} THEN 0
    ELSE LET u == CHOOSE x \in us : TRUE
         IN SumLen(d[u].chat_sessions) + TotalMsgsOver(d, us \ {u})

TotalMsgs(d) == TotalMsgsOver(d, Users)

(***************************************************************************)
(* Error texts of the inference endpoints and their classification         *)
(***************************************************************************)
UpperCase == "ABCDEFGHIJKLMNOPQRSTUVWXYZ"
LowerCase == "abcdefghijklmnopqrstuvwxyz"

\* str.lower() of one character
LowerChar(c) ==
    IF \E i \in 1..Len(UpperCase) : SubSeq(UpperCase, i, i) = c
    THEN LET i == CHOOSE i \in 1..Len(UpperCase) : SubSeq(UpperCase, i, i) = c
         IN  SubSeq(LowerCase, i, i)
    ELSE c

RECURSIVE Lower(_)
\* str(e).lower()
Lower(text) ==
    IF text = "" THEN ""
    ELSE LowerChar(SubSeq(text, 1, 1)) \o Lower(SubSeq(text, 2, Len(text)))

\* part in text
Contains(text, part) ==
    \E i \in 1..(Len(text) - Len(part) + 1) : SubSeq(text, i, i + Len(part) - 1) = part

\* mutant: the quota test asks for all three words
IsQuota_AllThree(error_str) ==
    /\ Contains(error_str, "402")
    /\ Contains(error_str, "payment required")
    /\ Contains(error_str, "exceeded")

IsQuota(error_str) ==
    /\ Contains(error_str, "402")
    /\ (Contains(error_str, "payment required") \/ Contains(error_str, "exceeded"))

IsLoading(error_str) == Contains(error_str, "is currently loading")

IsSafety(error_str) == Contains(error_str, "nsfw") \/ Contains(error_str, "safety")

max_retries == 3

\* what the endpoints answer: a result, or an exception of one of these texts
OkAnswer == "<ok>"
ErrorTexts ==
    { "402 Payment Required",
      "402 limit exceeded: is currently loading",
      "402 Client Error",
      "Model is currently loading",
      "safety checker is currently loading",
      "NSFW content",
      "500 Server Error" }
Answers == {OkAnswer} \cup ErrorTexts

\* mutant: the loading test comes first
ImageErrorBranch_LoadingFirst(e, attempt) ==
    LET error_str == Lower(e) IN
    IF IsLoading(error_str) /\ attempt < max_retries - 1 THEN "retry"
    ELSE IF IsQuota(error_str) THEN "quota"
    ELSE IF IsSafety(error_str) THEN "safety"
    ELSE "error"

\* mutant: the loading test does not look at the attempt
ImageErrorBranch_RetryLast(e, attempt) ==
    LET error_str == Lower(e) IN
    IF IsQuota(error_str) THEN "quota"
    ELSE IF IsLoading(error_str) THEN "retry"
    ELSE IF IsSafety(error_str) THEN "safety"
    ELSE "error"

\* the branch the except block of generate_image takes
ImageErrorBranch(e, attempt) ==
    LET error_str == Lower(e) IN
    IF IsQuota(error_str) THEN "quota"
    ELSE IF IsLoading(error_str) /\ attempt < max_retries - 1 THEN "retry"
    ELSE IF IsSafety(error_str) THEN "safety"
    ELSE "error"

QuotaReply == "I'm sorry, but I can't chat right now. We've reached our monthly limit."
GenericReply == "I'm having a little trouble connecting right now. Please try again in a moment."

\* generate_response(messages, stream=False)
generate_response(answer) ==
    IF answer = OkAnswer THEN "reply"
    ELSE LET error_str == Lower(answer) IN
         IF IsQuota(error_str) THEN QuotaReply ELSE GenericReply

\* how the synchronous generate_response ends: the request is inside a try
\* whose except block takes every Exception and returns
GenerateResponseEnds(answer) == "returned"

NoImageCall ==
    [ pc |-> "idle", attempt |-> 0, requests |-> 0, delays |-> 0, answers |-> <<>>,
      result |-> "", image |-> 0, shown |-> "" ]
NoChatCall == [ answer |-> "", ends |-> "", ret |-> "" ]

(***************************************************************************)
(* The list of messages sent for a text reply                              *)
(***************************************************************************)
HistoryWindow == 9
SystemMessage == [ role |-> "system", content |-> "You are Leo." ]

\* mutant: the first messages of the chat instead of the last
LastN_Head(messages, n) ==
    IF Len(messages) <= n THEN messages ELSE SubSeq(messages, 1, n)

\* messages[-n:]
LastN(messages, n) ==
    IF Len(messages) <= n THEN messages
    ELSE SubSeq(messages, Len(messages) - n + 1, Len(messages))

conversation_messages(current_messages, prompt) ==
    <<SystemMessage>> \o RolesContents(LastN(current_messages, HistoryWindow))
                     \o <<[role |-> "user", content |-> prompt]>>

NoConversation == [ messages |-> <<>>, sent |-> <<>> ]

(***************************************************************************)
(* The streamed reply                                                      *)
(***************************************************************************)
\* the texts of the chunks the completion endpoint streams
Fragments == {"Hel", "lo"}

\* the fragment the generator's except block yields
StreamFallback(e) ==
    LET error_str == Lower(e) IN
    IF IsQuota(error_str) THEN QuotaReply ELSE GenericReply

\* mutant: the consumer keeps the newest fragment only
Consume_Replace(full_response, chunk) == chunk

\* full_response += chunk
Consume(full_response, chunk) == full_response \o chunk

NoStream ==
    [ pc |-> "idle", user |-> "", sid |-> NoSession, fragments |-> <<>>,
      full_response |-> "", failed |-> FALSE ]

(***************************************************************************)
(* History records                                                         *)
(***************************************************************************)
NoPage == [ logged_in |-> FALSE, username |-> "", current_session |-> NoSession ]

\* the last completed operation: its name and arguments, what it returned, and
\* what the store held for its user just before it
NoOp ==
    [ op |-> "none", user |-> "", sid |-> NoSession, content |-> "", ret |-> "",
      value |-> <<>>, preLen |-> 0, preCur |-> NoSession, preMsgs |-> -1 ]

\* number of messages of the session the pair resolves to, -1 when it resolves
\* to none
MsgCount(d, u, sid) ==
    IF sid \in SessionIdsOf(get_chat_sessions(d, u))
    THEN Len(get_session_messages(d, u, sid))
    ELSE -1

Op(op, d, u, sid) ==
    [ NoOp EXCEPT !.op = op, !.user = u, !.sid = sid,
                  !.preLen = Len(get_chat_sessions(d, u)),
                  !.preCur = get_current_session_id(d, u),
                  !.preMsgs = MsgCount(d, u, sid) ]

\* locals of delete_chat_session; orig and pre are history: the user's session
\* list and the summary of the store at the call. current_messages is the
\* local of the main flow; sent is history: what a tab has appended, and where
NoLocals ==
    [ user |-> "", sid |-> NoSession, sessions |-> <<>>, orig |-> <<>>,
      pre |-> NoOp, current_messages |-> <<>>, sent |-> <<>> ]

(***************************************************************************)
(* Store clients calling the helpers                                       *)
(***************************************************************************)
\* alice has registered, bob has no document yet
InitDocs == { [u \in Users |-> IF u = "alice" THEN RegisteredDoc("pw1") ELSE NoDoc] }

Init ==
    /\ now = 0
    /\ db \in InitDocs
    /\ nextId = 0
    /\ pc = [p \in Procs |-> "idle"]
    /\ loc = [p \in Procs |-> NoLocals]
    /\ page = [t \in Tabs |-> NoPage]
    /\ appendLog = [s \in SessionIds |-> <<>>]
    /\ last = NoOp
    /\ img = NoImageCall
    /\ chat = NoChatCall
    /\ conv = NoConversation
    /\ stream = NoStream
    /\ confirm_delete = ""

\* createSession(user, title)
CreateSession(p, u, title) ==
    /\ pc[p] = "idle"
    /\ nextId < MaxIds
    /\ nextId' = nextId + 1
    /\ db' = create_new_chat_session(db, u, nextId + 1, title)
    /\ last' = Op("create", db, u, nextId + 1)
    /\ UNCHANGED <<pc, loc, page, appendLog, envVars>>

\* deleteSession(user, sid), first store operation: the $pull
DeletePull(p, u, sid) ==
    /\ pc[p] = "idle"
    /\ db' = PullSession(db, u, sid)
    /\ pc' = [pc EXCEPT ![p] = "pulled"]
    /\ loc' = [loc EXCEPT ![p] = [ NoLocals EXCEPT
                                     !.user = u, !.sid = sid,
                                     !.orig = get_chat_sessions(db, u),
                                     !.pre = Op("delete", db, u, sid) ]]
    /\ appendLog' =
          IF sid \in SessionIdsOf(get_chat_sessions(db, u))
          THEN [appendLog EXCEPT ![sid] = <<>>]
          ELSE appendLog
    /\ UNCHANGED <<nextId, page, last, envVars>>

\* second store operation: get_chat_sessions
DeleteRead(p) ==
    /\ pc[p] = "pulled"
    /\ loc' = [loc EXCEPT ![p].sessions = get_chat_sessions(db, loc[p].user)]
    /\ pc' = [pc EXCEPT ![p] = "read"]
    /\ UNCHANGED <<db, nextId, page, appendLog, last, envVars>>

\* third store operation: set_current_session or create_new_chat_session
DeleteReassign(p) ==
    /\ pc[p] = "read"
    /\ loc[p].sessions = <<>> => nextId < MaxIds
    /\ db' = ReassignCurrent(db, loc[p].user, loc[p].sessions, nextId + 1)
    /\ nextId' = IF loc[p].sessions = <<>> THEN nextId + 1 ELSE nextId
    /\ pc' = [pc EXCEPT ![p] = "idle"]
    /\ loc' = [loc EXCEPT ![p] = NoLocals]
    /\ last' = loc[p].pre
    /\ UNCHANGED <<page, appendLog, envVars>>

\* appendMessage(user, sid, role, content)
AppendMessage(p, u, sid, role, content) ==
    /\ pc[p] = "idle"
    /\ TotalMsgs(db) < MaxMsgs
    /\ db' = save_message_to_session(db, u, sid, role, content)
    /\ appendLog' =
          IF sid \in SessionIdsOf(get_chat_sessions(db, u))
          THEN [appendLog EXCEPT ![sid] = Append(@, [role |-> role, content |-> content])]
          ELSE appendLog
    /\ last' = [Op("append", db, u, sid) EXCEPT
                   !.ret = SaveMessageReturn(db, u, sid)]
    /\ UNCHANGED <<nextId, pc, loc, page, envVars>>

\* the calls of the sequential specification are made by one client, one at a time
StoreNext ==
    \/ \E u \in Users, title \in {"New Chat"} : CreateSession(1, u, title)
    \/ \E u \in Users, sid \in SessionIds : DeletePull(1, u, sid)
    \/ DeleteRead(1)
    \/ DeleteReassign(1)
    \/ \E u \in Users, sid \in SessionIds, role \in Roles, content \in {"hello"} :
          AppendMessage(1, u, sid, role, content)

SpecStore == Init /\ [][StoreNext]_vars

(***************************************************************************)
(* Properties of the sequential store                                      *)
(***************************************************************************)
Resolves(d, u) ==
    get_current_session_id(d, u) \in SessionIdsOf(get_chat_sessions(d, u))

Dangling(d, u) ==
    /\ get_current_session_id(d, u) # NoSession
    /\ ~Resolves(d, u)

InDelete(u) == \E p \in Procs : pc[p] \in {"pulled", "read"} /\ loc[p].user = u

AllIdle == \A p \in Procs : pc[p] = "idle"

\* C1: once a createSession or deleteSession of user U has completed, and no
\* call is under way, the stored current id of U names a session in U's list;
\* a stored current id that names no session of U is seen only inside a
\* deleteSession of U, after its pull and before its reassignment.
C1_CurrentResolves ==
    \A u \in Users :
        /\ ( /\ AllIdle
             /\ \/ last.op \in {"create", "delete"} /\ last.user = u
                \/ get_current_session_id(db, u) # NoSession )
           => Resolves(db, u)
        /\ Dangling(db, u) => InDelete(u)

C1_Witness ==
    /\ AllIdle
    /\ last.op = "delete"
    /\ last.preCur = last.sid
    /\ last.preLen >= 2
    /\ Resolves(db, last.user)

\* the first session of the list, in list order, that is not session sid
FirstOther(orig, sid) ==
    LET i == CHOOSE k \in 1..Len(orig) :
                /\ orig[k].session_id # sid
                /\ \A j \in 1..(k - 1) : orig[j].session_id = sid
    IN orig[i].session_id

\* C2: a deleteSession(user, s) of the user's current session s, made when the
\* user has at least 2 sessions, ends with the current session equal to the
\* first session other than s of the list as it was at the call.
C2_DeleteCurrentPromotesFirst ==
    [][ \A p \in Procs :
          ( /\ pc[p] = "read" /\ pc'[p] = "idle"
            /\ loc[p].pre.preCur = loc[p].sid
            /\ loc[p].sid \in SessionIdsOf(loc[p].orig)
            /\ Len(loc[p].orig) >= 2 )
          => get_current_session_id(db', loc[p].user)
                = FirstOther(loc[p].orig, loc[p].sid) ]_vars

C2_Witness ==
    /\ AllIdle
    /\ last.op = "delete"
    /\ last.preCur = last.sid
    /\ last.preMsgs >= 0
    /\ last.preLen >= 2
    /\ Len(get_chat_sessions(db, last.user)) >= 2
    /\ get_current_session_id(db, last.user)
          = get_chat_sessions(db, last.user)[1].session_id

\* C3: a deleteSession(user, s) of the user's only session s ends with exactly
\* one session, whose id is new and differs from s, whose message list is
\* empty, and which is the current session.
C3_DeleteLastCreatesFresh ==
    [][ \A p \in Procs :
          ( /\ pc[p] = "read" /\ pc'[p] = "idle"
            /\ Len(loc[p].orig) = 1
            /\ loc[p].orig[1].session_id = loc[p].sid )
          => LET after == get_chat_sessions(db', loc[p].user) IN
             /\ Len(after) = 1
             /\ after[1].session_id # loc[p].sid
             /\ after[1].session_id > nextId
             /\ after[1].messages = <<>>
             /\ get_current_session_id(db', loc[p].user) = after[1].session_id ]_vars

C3_Witness ==
    /\ AllIdle
    /\ last.op = "delete"
    /\ last.preLen = 1
    /\ last.preMsgs >= 1
    /\ Len(get_chat_sessions(db, last.user)) = 1
    /\ get_chat_sessions(db, last.user)[1].messages = <<>>

\* C4: the messages getMessages returns for an existing session are exactly
\* the appends made to it, in the order they were made.
C4_MessagesInAppendOrder ==
    \A u \in Users :
        \A sid \in SessionIdsOf(get_chat_sessions(db, u)) :
            RolesContents(get_session_messages(db, u, sid)) = appendLog[sid]

C4_Witness ==
    \E u \in Users :
        \E sid \in SessionIdsOf(get_chat_sessions(db, u)) :
            /\ Len(appendLog[sid]) >= 2
            /\ appendLog[sid][1] # appendLog[sid][2]
            /\ last.op = "append"
            /\ last.sid = sid

\* C10: an appendMessage whose (user, sessionId) pair resolves to no session
\* hands NotFound to its caller.
C10_NotFoundSignalled ==
    (last.op = "append" /\ last.preMsgs = -1) => last.ret = "NotFound"

(***************************************************************************)
(* The helpers called one at a time while the clock advances, with reads   *)
(* and with store failures                                                 *)
(***************************************************************************)
Tick ==
    /\ now < MaxClock
    /\ now' = now + 1
    /\ UNCHANGED <<db, nextId, pc, loc, page, appendLog, last, img, chat, conv,
                   stream, confirm_delete>>

\* setCurrentSession(user, sid)
SetCurrent(p, u, sid) ==
    /\ pc[p] = "idle"
    /\ db' = set_current_session(db, u, sid)
    /\ last' = [Op("set_current", db, u, sid) EXCEPT
                   !.ret = SetCurrentReturn(db, u, sid)]
    /\ UNCHANGED <<nextId, pc, loc, page, appendLog, envVars>>

\* getMessages(user, sid)
GetMessages(p, u, sid) ==
    /\ pc[p] = "idle"
    /\ last' = [Op("get_messages", db, u, sid) EXCEPT
                   !.ret = GetMessagesReturn(db, u, sid),
                   !.value = RolesContents(get_session_messages(db, u, sid))]
    /\ UNCHANGED <<db, nextId, pc, loc, page, appendLog, envVars>>

HelperOps == {"create", "set_current", "append", "get_messages", "list", "delete"}

\* a helper called while the store is unreachable
HelperFails(p, op, u) ==
    /\ pc[p] = "idle"
    /\ last' = [NoOp EXCEPT !.op = op, !.user = u, !.ret = HelperOnStoreError(op)]
    /\ UNCHANGED <<db, nextId, pc, loc, page, appendLog, envVars>>

ApiTitles == {"New Chat", "First Chat"}

ApiSessionIds == 1..(ApiMaxIds + 1)

ApiNext ==
    \/ Tick
    \/ \E u \in Users, title \in ApiTitles :
          nextId < ApiMaxIds /\ CreateSession(1, u, title)
    \/ \E u \in Users, sid \in ApiSessionIds, role \in {"user"}, content \in {"hello"} :
          TotalMsgs(db) < ApiMaxMsgs /\ AppendMessage(1, u, sid, role, content)
    \/ \E u \in Users, sid \in ApiSessionIds : SetCurrent(1, u, sid)
    \/ \E u \in Users, sid \in ApiSessionIds : GetMessages(1, u, sid)

SpecApi == Init /\ [][ApiNext]_vars

(***************************************************************************)
(* The helpers called while the store fails now and then                   *)
(***************************************************************************)
FaultNext ==
    \/ \E u \in Users, title \in ApiTitles : CreateSession(1, u, title)
    \/ \E u \in Users, op \in HelperOps : HelperFails(1, op, u)

SpecFault == Init /\ [][FaultNext]_vars

(***************************************************************************)
(* Sessions created with either title, for either user, between appends    *)
(***************************************************************************)
CreateNext ==
    \/ \E u \in Users, title \in ApiTitles : CreateSession(1, u, title)
    \/ \E u \in Users, sid \in SessionIds, content \in {"hello"} :
          AppendMessage(1, u, sid, "user", content)

SpecCreate == Init /\ [][CreateNext]_vars

\* C11: appendMessage for a (user, sessionId) pair that resolves to no session
\* changes nothing in the store: no message list, title, session list, current
\* session or last-interaction stamp of any user, and nothing is created
C11_AppendUnresolvedNoOp ==
    [][\A u \in Users, sid \in ApiSessionIds :
          (AppendMessage(1, u, sid, "user", "hello") /\ MsgCount(db, u, sid) = -1)
             => (db' = db /\ nextId' = nextId)]_vars

\* an append that named no session of a user whose record has a session and
\* stamps older than the clock
C11_Witness ==
    /\ last.op = "append"
    /\ last.preMsgs = -1
    /\ db[last.user].exists
    /\ db[last.user].chat_sessions # <<>>
    /\ db[last.user].last_interaction < now

\* C12: getMessages fails with NotFound when the user has no session of the
\* id, and returns the empty sequence only for a session without messages
C12_NotFoundDistinguishable ==
    last.op = "get_messages" =>
        /\ last.preMsgs = -1 => last.ret = "NotFound"
        /\ (last.ret = "returned" /\ last.value = <<>>) => last.preMsgs = 0

\* C13: createSession returns an id no session of the user has, adds one
\* session of that id, the given title and no messages at the end of the
\* user's list, makes it the user's current session, and leaves the sessions
\* the user had in place
C13_CreateAddsCurrentSession ==
    [][\A u \in Users, title \in ApiTitles :
          CreateSession(1, u, title) =>
             LET old == get_chat_sessions(db, u)
                 new == get_chat_sessions(db', u)
                 id  == last'.sid
             IN  /\ id \notin SessionIdsOf(old)
                 /\ Len(new) = Len(old) + 1
                 /\ SubSeq(new, 1, Len(old)) = old
                 /\ new[Len(new)].session_id = id
                 /\ new[Len(new)].title = title
                 /\ new[Len(new)].messages = <<>>
                 /\ get_current_session_id(db', u) = id]_vars

\* a session titled "First Chat" created after one that holds a message
C13_Witness ==
    LET sessions == db[last.user].chat_sessions IN
    /\ last.op = "create"
    /\ Len(sessions) >= 2
    /\ sessions[Len(sessions)].session_id = last.sid
    /\ sessions[Len(sessions)].title = "First Chat"
    /\ sessions[1].messages # <<>>

\* C14 as stated: setCurrentSession with an id that is not among the user's
\* sessions raises nothing and the stored current session keeps its value
C14_SetCurrentKeepsCurrent ==
    (last.op = "set_current" /\ last.preMsgs = -1) =>
        /\ last.ret = "None"
        /\ get_current_session_id(db, last.user) = last.preCur

\* C14 amended: setCurrentSession with an id that is not among the user's
\* sessions raises nothing and does not look at the sessions: the id becomes
\* the stored current session when the user has a record, and nothing is
\* stored when the user has none
C14_SetCurrentStoresUnvalidated ==
    (last.op = "set_current" /\ last.preMsgs = -1) =>
        /\ last.ret = "None"
        /\ get_current_session_id(db, last.user) =
              IF db[last.user].exists THEN last.sid ELSE NoSession
        /\ db[last.user].exists => Len(get_chat_sessions(db, last.user)) = last.preLen

\* the stored current session was replaced by an id of no session of the user
C14_Witness ==
    /\ last.op = "set_current"
    /\ last.preMsgs = -1
    /\ db[last.user].exists
    /\ last.preCur # NoSession
    /\ last.preCur # last.sid
    /\ get_current_session_id(db, last.user) = last.sid

\* C19: a failure of the store during a helper never leaves the helper as an
\* exception
C19_StoreFailuresCaught ==
    last.op \in HelperOps => last.ret # "raised"

(***************************************************************************)
(* Two store clients of the same user (two tabs, two script runs): their   *)
(* store operations interleave, each operation is atomic                   *)
(***************************************************************************)
ConcNext ==
    \E p \in Procs :
        \/ \E title \in {"New Chat"} : CreateSession(p, "alice", title)
        \/ \E sid \in SessionIds : DeletePull(p, "alice", sid)
        \/ DeleteRead(p)
        \/ DeleteReassign(p)

SpecConc == Init /\ [][ConcNext]_vars

\* C7: whatever the interleaving of the store operations of two deleteSession
\* calls of one user, once no call is under way the stored current session id
\* of the user names a session of the user's list.
C7_ConcurrentDeletesResolve ==
    \A u \in Users :
        (AllIdle /\ last.op = "delete" /\ last.user = u) => Resolves(db, u)

(***************************************************************************)
(* The page script: one action per script run                              *)
(***************************************************************************)
\* mutant: the title is cut one character later
TitleOf_OffByOne(prompt) ==
    IF Len(prompt) > 31 THEN SubSeq(prompt, 1, 31) \o "..." ELSE prompt

\* title = prompt[:30] + "..." if len(prompt) > 30 else prompt
TitleOf(prompt) ==
    IF Len(prompt) > 30 THEN SubSeq(prompt, 1, 30) \o "..." ELSE prompt

\* f"{title} ({len(messages)} messages)"
SessionTitle(session) ==
    session.title \o " (" \o ToString(Len(session.messages)) \o " messages)"

SessionTitles(chat_sessions) ==
    [i \in 1..Len(chat_sessions) |-> SessionTitle(chat_sessions[i])]

\* next((i for i, session in enumerate(chat_sessions) if ...), 0), counted from 1
SelectedIndex(chat_sessions, current_session) ==
    IF current_session \in SessionIdsOf(chat_sessions)
    THEN IndexOfId(chat_sessions, current_session)
    ELSE 1

\* session_titles.index(selected_title), counted from 1
TitleIndex(session_titles, selected_title) ==
    CHOOSE i \in 1..Len(session_titles) :
        /\ session_titles[i] = selected_title
        /\ \A j \in 1..(i - 1) : session_titles[j] # selected_title

\* The selector of display_chat_management. pick is the position the user
\* chose in the selectbox in this run, 0 when the user did not touch it and the
\* selectbox hands back options[index]. Result: the store, the page state, and
\* whether st.rerun() was called.
Selector(d, pg, pick) ==
    LET chat_sessions == get_chat_sessions(d, pg.username)
        session_titles == SessionTitles(chat_sessions)
        selected_index == SelectedIndex(chat_sessions, pg.current_session)
        selected_title == session_titles[IF pick = 0 THEN selected_index ELSE pick]
        chosen == TitleIndex(session_titles, selected_title)
        new_session_id == chat_sessions[chosen].session_id
    IN  IF chat_sessions = <<>> \/ selected_index = chosen
        THEN [ db |-> d, page |-> pg, rerun |-> FALSE ]
        ELSE [ db |-> set_current_session(d, pg.username, new_session_id),
               page |-> [pg EXCEPT !.current_session = new_session_id],
               rerun |-> TRUE ]

\* the script runs that follow st.rerun(): no button is pressed, the selector
\* is evaluated, and the script runs again for as long as it calls st.rerun()
RECURSIVE Rerun(_, _)
Rerun(d, pg) ==
    IF ~pg.logged_in THEN [ db |-> d, page |-> pg ]
    ELSE LET r == Selector(d, pg, 0) IN
         IF r.rerun THEN Rerun(r.db, r.page) ELSE [ db |-> d, page |-> pg ]

\* the title update of the main flow: update_one with the positional operator
UpdateTitle(d, username, session_id, title) ==
    LET i == MatchedIndex(d, username, session_id) IN
    IF i = 0 THEN d
    ELSE [d EXCEPT ![username].chat_sessions[i].title = title]

\* delete_chat_session run to its end without interruption
delete_chat_session(d, username, session_id, fresh_id) ==
    LET pulled == PullSession(d, username, session_id) IN
    ReassignCurrent(pulled, username, get_chat_sessions(pulled, username), fresh_id)

\* the chat-input branch of the main flow, for current_messages read above it
SendMessages(d, username, session_id, prompt, reply) ==
    LET current_messages == get_session_messages(d, username, session_id)
        d1 == save_message_to_session(d, username, session_id, "user", prompt)
        i == MatchedIndex(d1, username, session_id)
        d2 == IF Len(current_messages) = 0 /\ i # 0
              THEN [d1 EXCEPT ![username].chat_sessions[i].title = TitleOf(prompt)]
              ELSE d1
    IN  save_message_to_session(d2, username, session_id, "assistant", reply)

PageOp(op, t, sid) == [ NoOp EXCEPT !.op = op, !.user = page[t].username, !.sid = sid ]

\* Register button
Register(t, u, password, confirm_password) ==
    /\ ~page[t].logged_in
    /\ db' = IF password = confirm_password /\ ~db[u].exists
             THEN [db EXCEPT ![u] = RegisteredDoc(password)]
             ELSE db
    /\ last' = [ NoOp EXCEPT !.op = IF db' # db THEN "register" ELSE "register_rejected",
                             !.user = u ]
    /\ UNCHANGED <<nextId, pc, loc, page, appendLog, envVars>>

\* admin page: the user card shows Deactivate for an active user and Activate
\* for any other
SetActive(u, flag) ==
    /\ db[u].exists
    /\ flag = IF db[u].active = 1 THEN 0 ELSE 1
    /\ db' = [db EXCEPT ![u].active = flag]
    /\ last' = [ NoOp EXCEPT !.op = "set_active", !.user = u ]
    /\ UNCHANGED <<nextId, pc, loc, page, appendLog, envVars>>

\* mutant: the activation flag is not looked at
LoginAccepted_NoActive(d, u, password) ==
    /\ d[u].exists
    /\ d[u].password # MissingField
    /\ verify_password(d[u].password, password)

LoginAccepted(d, u, password) ==
    /\ d[u].exists
    /\ d[u].password # MissingField
    /\ verify_password(d[u].password, password)
    /\ d[u].active = 1

\* mutant: a first session is created at every login
NeedsFirstChat_Always(current_session) == TRUE

\* if not current_session
NeedsFirstChat(current_session) == current_session = NoSession

\* Login button
Login(t, u, password) ==
    /\ ~page[t].logged_in
    /\ IF LoginAccepted(db, u, password)
       THEN LET stored == get_current_session_id(db, u)
                create == NeedsFirstChat(stored)
                d1 == IF create
                      THEN create_new_chat_session(db, u, nextId + 1, "First Chat")
                      ELSE db
                pg == [ logged_in |-> TRUE, username |-> u,
                        current_session |-> IF create THEN nextId + 1 ELSE stored ]
                r == Rerun(d1, pg)
            IN  /\ create => nextId < MaxIds
                /\ nextId' = IF create THEN nextId + 1 ELSE nextId
                /\ db' = r.db
                /\ page' = [page EXCEPT ![t] = r.page]
                /\ last' = Op("login", db, u, pg.current_session)
       ELSE /\ UNCHANGED <<db, nextId, page>>
            /\ last' = [ NoOp EXCEPT !.op = "login_rejected", !.user = u ]
    /\ UNCHANGED <<pc, loc, appendLog, envVars>>

\* New Chat button: it is evaluated before the selector
NewChat(t) ==
    /\ page[t].logged_in
    /\ nextId < MaxIds
    /\ LET d1 == create_new_chat_session(db, page[t].username, nextId + 1, "New Chat")
           r == Rerun(d1, [page[t] EXCEPT !.current_session = nextId + 1])
       IN  /\ db' = r.db
           /\ page' = [page EXCEPT ![t] = r.page]
    /\ nextId' = nextId + 1
    /\ last' = PageOp("new_chat", t, nextId + 1)
    /\ UNCHANGED <<pc, loc, appendLog, envVars>>

\* the user picks position i of the selectbox
SelectChat(t, i) ==
    /\ page[t].logged_in
    /\ i \in 1..Len(get_chat_sessions(db, page[t].username))
    /\ LET s == Selector(db, page[t], i)
           r == IF s.rerun THEN Rerun(s.db, s.page) ELSE [ db |-> s.db, page |-> s.page ]
       IN  /\ db' = r.db
           /\ page' = [page EXCEPT ![t] = r.page]
    /\ last' = PageOp("select", t, get_chat_sessions(db, page[t].username)[i].session_id)
    /\ UNCHANGED <<nextId, pc, loc, appendLog, envVars>>

\* a script run in which the untouched selector itself switches the session and
\* calls st.rerun(): the buttons and the chat input below it are not reached
SelectorRerun(t) ==
    /\ page[t].logged_in
    /\ Selector(db, page[t], 0).rerun
    /\ LET r == Rerun(db, page[t])
       IN  /\ db' = r.db
           /\ page' = [page EXCEPT ![t] = r.page]
    /\ last' = PageOp("selector_rerun", t, page[t].current_session)
    /\ UNCHANGED <<nextId, pc, loc, appendLog, envVars>>

\* Delete Current Chat button
DeleteCurrentChat(t) ==
    /\ page[t].logged_in
    /\ ~Selector(db, page[t], 0).rerun
    /\ get_chat_sessions(db, page[t].username) # <<>>
    /\ LET u == page[t].username
           left == get_chat_sessions(PullSession(db, u, page[t].current_session), u)
           d1 == delete_chat_session(db, u, page[t].current_session, nextId + 1)
           r == Rerun(d1, page[t])
       IN  /\ left = <<>> => nextId < MaxIds
           /\ nextId' = IF left = <<>> THEN nextId + 1 ELSE nextId
           /\ db' = r.db
           /\ page' = [page EXCEPT ![t] = r.page]
    /\ last' = PageOp("delete_current", t, page[t].current_session)
    /\ UNCHANGED <<pc, loc, appendLog, envVars>>

\* Logout button
Logout(t) ==
    /\ page[t].logged_in
    /\ ~Selector(db, page[t], 0).rerun
    /\ page' = [page EXCEPT ![t] = NoPage]
    /\ last' = PageOp("logout", t, page[t].current_session)
    /\ UNCHANGED <<db, nextId, pc, loc, appendLog, envVars>>

\* the chat input: the user message, the title update, the assistant message
Send(t, prompt, reply) ==
    /\ page[t].logged_in
    /\ ~Selector(db, page[t], 0).rerun
    /\ TotalMsgs(db) + 2 <= MaxPageMsgs
    /\ db' = SendMessages(db, page[t].username, page[t].current_session, prompt, reply)
    /\ last' = [PageOp("send", t, page[t].current_session) EXCEPT !.content = prompt]
    /\ UNCHANGED <<nextId, pc, loc, page, appendLog, envVars>>

\* one browser tab, and the admin page
PageNext ==
    \/ \E u \in Users, pw \in {"pw1"}, confirm \in Passwords : Register(1, u, pw, confirm)
    \/ \E u \in Users, flag \in {1} : SetActive(u, flag)
    \/ \E u \in Users, pw \in Passwords : Login(1, u, pw)
    \/ NewChat(1)
    \/ \E i \in 1..MaxIds : SelectChat(1, i)
    \/ SelectorRerun(1)
    \/ DeleteCurrentChat(1)
    \/ Logout(1)
    \/ \E prompt \in Prompts, reply \in Replies : Send(1, prompt, reply)

SpecPage == Init /\ [][PageNext]_vars

(***************************************************************************)
(* Properties of the page script                                           *)
(***************************************************************************)
\* C5: a message sent to a session without messages makes the session title
\* the message itself when it has at most 30 characters, and its first 30
\* characters followed by "..." when it is longer; a message sent to a session
\* that has messages leaves the title as it was.
C5_TitleFromFirstMessage ==
    [][ \A t \in Tabs, prompt \in Prompts, reply \in Replies :
          Send(t, prompt, reply) =>
            LET u == page[t].username
                i == IndexOfId(get_chat_sessions(db, u), page[t].current_session)
            IN  i # 0 =>
                  db'[u].chat_sessions[i].title =
                    IF db[u].chat_sessions[i].messages # <<>>
                    THEN db[u].chat_sessions[i].title
                    ELSE IF Len(prompt) <= 30 THEN prompt
                    ELSE SubSeq(prompt, 1, 30) \o "..." ]_vars

C5_Witness ==
    /\ last.op = "send"
    /\ Len(last.content) > 30
    /\ LET msgs == get_session_messages(db, last.user, last.sid) IN
       /\ Len(msgs) = 2
       /\ msgs[1].content = last.content

\* C6: the login of an active user with correct credentials who has no session
\* and no stored current session creates exactly one session, titled
\* "First Chat", which is the stored current session and the current session
\* of the page; the login of a user with a stored current session leaves the
\* user's session list as it was.
C6_LoginFirstChat ==
    [][ \A t \in Tabs, u \in Users, pw \in Passwords :
          (Login(t, u, pw) /\ LoginAccepted(db, u, pw)) =>
            LET after == get_chat_sessions(db', u) IN
            /\ ( get_chat_sessions(db, u) = <<>>
                 /\ get_current_session_id(db, u) = NoSession )
               => /\ Len(after) = 1
                  /\ after[1].title = "First Chat"
                  /\ get_current_session_id(db', u) = after[1].session_id
                  /\ page'[t].logged_in
                  /\ page'[t].username = u
                  /\ page'[t].current_session = after[1].session_id
            /\ get_current_session_id(db, u) # NoSession
               => after = get_chat_sessions(db, u) ]_vars

C6_Witness ==
    /\ last.op = "login"
    /\ last.preLen = 0
    /\ last.preCur = NoSession
    /\ \E t \in Tabs : page[t].logged_in /\ page[t].username = last.user
    /\ Len(get_chat_sessions(db, last.user)) = 1

\* C8: the session id a logged-in page holds as current names a session of
\* the user's list.
C8_PageCurrentExists ==
    \A t \in Tabs :
        page[t].logged_in =>
            page[t].current_session
                \in SessionIdsOf(get_chat_sessions(db, page[t].username))

\* C9: when the send handler has completed, the user's current session ends
\* with the submitted text as a "user" message followed by one "assistant"
\* message.
C9_SentMessageStored ==
    last.op = "send" =>
        LET msgs == get_session_messages(db, last.user,
                                         get_current_session_id(db, last.user))
            n == Len(msgs)
        IN  /\ n >= 2
            /\ RoleContent(msgs[n - 1]) = [role |-> "user", content |-> last.content]
            /\ msgs[n].role = "assistant"

(***************************************************************************)
(* The inference gateways: generate_image and the synchronous              *)
(* generate_response                                                       *)
(***************************************************************************)
sessionVars == <<db, nextId, pc, loc, page, appendLog, last, now>>

\* generate_image(prompt) is entered
ImageCall ==
    /\ img.pc = "idle"
    /\ img' = [NoImageCall EXCEPT !.pc = "request"]
    /\ UNCHANGED <<sessionVars, chat, conv, stream, confirm_delete>>

\* one pass of the loop body: the request, and the except block when it raises
ImageRequest(answer) ==
    /\ img.pc = "request"
    /\ LET branch == ImageErrorBranch(answer, img.attempt)
           n == img.requests + 1
       IN  img' =
             IF answer = OkAnswer
             THEN [img EXCEPT !.requests = n, !.answers = Append(@, answer),
                              !.pc = "done", !.result = "image", !.image = n]
             ELSE IF branch = "retry"
             THEN [img EXCEPT !.requests = n, !.answers = Append(@, answer),
                              !.pc = "sleeping", !.shown = "info"]
             ELSE [img EXCEPT !.requests = n, !.answers = Append(@, answer),
                              !.pc = "done", !.result = "None", !.shown = branch]
    /\ UNCHANGED <<sessionVars, chat, conv, stream, confirm_delete>>

\* time.sleep(15); continue: the next pass, or the statements after the loop
ImageSleep ==
    /\ img.pc = "sleeping"
    /\ img' =
          IF img.attempt + 1 < max_retries
          THEN [img EXCEPT !.delays = @ + 1, !.attempt = @ + 1, !.pc = "request"]
          ELSE [img EXCEPT !.delays = @ + 1, !.attempt = @ + 1, !.pc = "done",
                           !.result = "None", !.shown = "busy"]
    /\ UNCHANGED <<sessionVars, chat, conv, stream, confirm_delete>>

\* the caller has the result
ImageReturn ==
    /\ img.pc = "done"
    /\ img' = [img EXCEPT !.pc = "idle"]
    /\ UNCHANGED <<sessionVars, chat, conv, stream, confirm_delete>>

\* generate_response(messages) with stream=False
ChatCall(answer) ==
    /\ chat' = [ answer |-> answer, ends |-> GenerateResponseEnds(answer),
                 ret |-> generate_response(answer) ]
    /\ UNCHANGED <<sessionVars, img, conv, stream, confirm_delete>>

GatewayNext ==
    \/ ImageCall
    \/ \E answer \in Answers : ImageRequest(answer)
    \/ ImageSleep
    \/ ImageReturn
    \/ \E answer \in Answers : ChatCall(answer)

SpecGateway == Init /\ [][GatewayNext]_vars

\* a step of the running generate_image: the endpoint answers every request
\* (with a result or an exception) and time.sleep returns
ImageStep == (\E answer \in Answers : ImageRequest(answer)) \/ ImageSleep

SpecGatewayFair == SpecGateway /\ WF_vars(ImageStep)

\* the last answer of the image endpoint, in lower case
LastImageError == Lower(img.answers[Len(img.answers)])

\* C15: when all 3 attempts fail with the "currently loading" signal, the call
\* ends with the "busy, try again later" message and an absent result
C15_LoadingExhaustedBusy ==
    ( /\ img.pc = "done"
      /\ Len(img.answers) = max_retries
      /\ \A i \in 1..max_retries :
            img.answers[i] # OkAnswer /\ IsLoading(Lower(img.answers[i])) )
    => (img.shown = "busy" /\ img.result = "None")

\* requests and delays of generate_image
ImageCounts ==
    /\ img.requests <= max_retries
    /\ img.pc = "request" => img.delays = img.requests
    /\ (img.pc \in {"sleeping", "done"}) => img.delays = img.requests - 1
    /\ (img.pc = "done" /\ img.result = "image") => img.image = img.requests
    /\ ( /\ Len(img.answers) = 3
         /\ img.answers[1] = "Model is currently loading"
         /\ img.answers[2] = "Model is currently loading"
         /\ img.answers[3] = OkAnswer )
       => (img.requests = 3 /\ img.delays = 2 /\ img.result = "image" /\ img.image = 3)

\* C16: generate_image makes at most 3 requests, sleeps once between two
\* consecutive attempts and never after the last; loading, loading, success
\* gives 3 requests, 2 delays and the third attempt's image; every call ends
C16_BoundedRetries ==
    /\ []ImageCounts
    /\ (img.pc = "request") ~> (img.pc = "done")

\* loading twice, then the image
C16_Witness ==
    /\ img.pc = "done"
    /\ img.answers = <<"Model is currently loading", "Model is currently loading", OkAnswer>>
    /\ img.delays = 2

\* C17 as stated: an error with a quota or safety signal or without the
\* loading signal ends the call at that attempt with an absent result and no
\* delay; only an error with the loading signal and neither a quota nor a
\* safety signal leads to another attempt
C17_RetryOnlyPureLoading ==
    (img.answers # <<>> /\ img.answers[Len(img.answers)] # OkAnswer) =>
        /\ (IsQuota(LastImageError) \/ IsSafety(LastImageError)
               \/ ~IsLoading(LastImageError))
           => /\ img.pc \in {"done", "idle"}
              /\ img.result = "None"
              /\ img.requests = Len(img.answers)
              /\ img.delays = img.requests - 1
        /\ img.pc = "sleeping"
           => /\ IsLoading(LastImageError)
              /\ ~IsQuota(LastImageError)
              /\ ~IsSafety(LastImageError)

\* C17 amended: an error with a quota signal, or without the loading signal,
\* or of the third attempt ends the call at that attempt with an absent
\* result, no delay and no further request; only an error with the loading
\* signal and no quota signal, on the first or second attempt, leads to
\* another attempt
C17_RetryOnlyLoadingNotLast ==
    (img.answers # <<>> /\ img.answers[Len(img.answers)] # OkAnswer) =>
        /\ (IsQuota(LastImageError) \/ ~IsLoading(LastImageError)
               \/ Len(img.answers) = max_retries)
           => /\ img.pc \in {"done", "idle"}
              /\ img.result = "None"
              /\ img.requests = Len(img.answers)
              /\ img.delays = img.requests - 1
        /\ img.pc = "sleeping"
           => /\ IsLoading(LastImageError)
              /\ ~IsQuota(LastImageError)
              /\ Len(img.answers) < max_retries

\* an error with both the loading and a safety signal is being retried
C17_Witness ==
    /\ img.pc = "sleeping"
    /\ IsLoading(LastImageError)
    /\ IsSafety(LastImageError)

\* C18: the synchronous generate_response returns the monthly-limit sentence
\* when the endpoint's error text has "402" and "payment required" or
\* "exceeded" (in any case of letters), the generic sentence on any other
\* failure, and raises nothing
C18_SyncFailureReplies ==
    chat.answer \in ErrorTexts =>
        LET text == Lower(chat.answer) IN
        /\ chat.ends = "returned"
        /\ chat.ret =
              IF /\ Contains(text, "402")
                 /\ (Contains(text, "payment required") \/ Contains(text, "exceeded"))
              THEN "I'm sorry, but I can't chat right now. We've reached our monthly limit."
              ELSE "I'm having a little trouble connecting right now. Please try again in a moment."

\* the endpoint answered 402 Payment Required
C18_Witness ==
    /\ chat.answer = "402 Payment Required"
    /\ chat.ret = QuotaReply

(***************************************************************************)
(* The main flow's text reply: what is sent to the completion endpoint     *)
(***************************************************************************)
MaxHistory == 12    \* messages of the chat on screen

WindowPrompts == {"hi", "more"}
WindowReplies == {"hi", "sure"}

\* a prompt without an image trigger is entered: current_messages was read
\* before the prompt is saved, the list is built and sent, the reply is saved
TextReply(prompt, reply) ==
    /\ Len(conv.messages) + 2 <= MaxHistory
    /\ conv' = [ messages |-> conv.messages \o
                     <<Message("user", prompt), Message("assistant", reply)>>,
                 sent |-> conversation_messages(conv.messages, prompt) ]
    /\ UNCHANGED <<sessionVars, img, chat, stream, confirm_delete>>

\* a chat without messages comes on screen
FreshChat ==
    /\ conv.messages # <<>>
    /\ conv' = NoConversation
    /\ UNCHANGED <<sessionVars, img, chat, stream, confirm_delete>>

WindowNext ==
    \/ \E prompt \in WindowPrompts, reply \in WindowReplies : TextReply(prompt, reply)
    \/ FreshChat

SpecWindow == Init /\ [][WindowNext]_vars

Min(a, b) == IF a <= b THEN a ELSE b

\* C20: the list sent for a text reply is the system prompt, then the last
\* min(9, k) of the k messages the chat held before, oldest first, then the
\* new user message; the new message is in the list once, and the list has
\* at most 11 elements
C20_ConversationWindow ==
    [][\A prompt \in WindowPrompts, reply \in WindowReplies :
          TextReply(prompt, reply) =>
             LET held == conv.messages
                 k    == Len(held)
                 m    == Min(9, k)
                 sent == conv'.sent
                 new  == [role |-> "user", content |-> prompt]
             IN  /\ Len(sent) = m + 2
                 /\ Len(sent) <= 11
                 /\ sent[1] = SystemMessage
                 /\ \A i \in 1..m :
                       sent[1 + i] = [ role |-> held[k - m + i].role,
                                       content |-> held[k - m + i].content ]
                 /\ sent[m + 2] = new
                 /\ (\A i \in (k - m + 1)..k : held[i].content # prompt)
                       => Cardinality({i \in 1..Len(sent) : sent[i] = new}) = 1]_vars

\* a list of 11 elements was sent for a chat that held more than 9 messages
C20_Witness ==
    /\ Len(conv.sent) = 11
    /\ Len(conv.messages) = 12
    /\ conv.sent[2] = [role |-> "assistant", content |-> conv.messages[2].content]
    /\ conv.sent[2].content # conv.messages[1].content

(***************************************************************************)
(* The main flow's text reply, streamed: the generator of generate_response *)
(* and the loop that consumes it                                           *)
(***************************************************************************)
MaxFragments == 4   \* chunks with text of one stream

StreamErrors == {"402 Payment Required", "500 Server Error"}

\* the prompt of a chat on screen is saved and the stream is asked for
StreamStart(u, sid, prompt) ==
    /\ stream.pc = "idle"
    /\ sid \in SessionIdsOf(get_chat_sessions(db, u))
    /\ TotalMsgs(db) + 2 <= MaxMsgs
    /\ LET saved == save_message_to_session(db, u, sid, "user", prompt)
       IN  db' = IF Len(get_session_messages(db, u, sid)) = 0
                 THEN UpdateTitle(saved, u, sid, TitleOf(prompt))
                 ELSE saved
    /\ stream' = [NoStream EXCEPT !.pc = "streaming", !.user = u, !.sid = sid]
    /\ last' = [Op("send", db, u, sid) EXCEPT !.content = prompt]
    /\ UNCHANGED <<nextId, pc, loc, page, appendLog, now, img, chat, conv, confirm_delete>>

\* a chunk with text arrives: the generator yields it, the loop adds it
StreamChunk(fragment) ==
    /\ stream.pc = "streaming"
    /\ Len(stream.fragments) < MaxFragments
    /\ stream' = [stream EXCEPT !.fragments = Append(@, fragment),
                                !.full_response = Consume(@, fragment)]
    /\ UNCHANGED <<sessionVars, last, img, chat, conv, confirm_delete>>

\* the endpoint raises: the except block yields one sentence, the generator ends
StreamError(e) ==
    /\ stream.pc = "streaming"
    /\ stream' = [stream EXCEPT !.fragments = Append(@, StreamFallback(e)),
                                !.full_response = Consume(@, StreamFallback(e)),
                                !.failed = TRUE,
                                !.pc = "ended"]
    /\ UNCHANGED <<sessionVars, last, img, chat, conv, confirm_delete>>

\* the stream is exhausted
StreamEnd ==
    /\ stream.pc = "streaming"
    /\ stream' = [stream EXCEPT !.pc = "ended"]
    /\ UNCHANGED <<sessionVars, last, img, chat, conv, confirm_delete>>

\* after the loop: save_message_to_session(..., "assistant", full_response)
StreamSave ==
    /\ stream.pc = "ended"
    /\ db' = save_message_to_session(db, stream.user, stream.sid, "assistant",
                                     stream.full_response)
    /\ stream' = [stream EXCEPT !.pc = "idle"]
    /\ last' = Op("reply", db, stream.user, stream.sid)
    /\ UNCHANGED <<nextId, pc, loc, page, appendLog, now, img, chat, conv, confirm_delete>>

StreamNext ==
    \/ \E title \in {"New Chat"} : nextId < ApiMaxIds /\ CreateSession(1, "alice", title)
    \/ \E sid \in SessionIds, prompt \in {"hello"} : StreamStart("alice", sid, prompt)
    \/ \E fragment \in Fragments : StreamChunk(fragment)
    \/ \E e \in StreamErrors : StreamError(e)
    \/ StreamEnd
    \/ StreamSave

SpecStream == Init /\ [][StreamNext]_vars

RECURSIVE Concat(_)
\* the texts of a sequence, joined in order
Concat(texts) ==
    IF texts = <<>> THEN "" ELSE texts[1] \o Concat(Tail(texts))

MaxSends == 2       \* messages each tab sends

\* what tab p enters as its k-th message, and the reply to it
TabPrompt(p, k) == (IF p = 1 THEN "a" ELSE "b") \o ToString(k)
TabReply(prompt) == "re:" \o prompt

\* history: the messages tab p has appended, with the session of each
TabSent == [ p \in Procs |-> loc[p].sent ]

\* the script run starts: current_messages is read and shown
TabShow(p, u, sid) ==
    /\ pc[p] = "idle"
    /\ Len(loc[p].sent) < 2 * MaxSends
    /\ sid \in SessionIdsOf(get_chat_sessions(db, u))
    /\ loc' = [loc EXCEPT ![p].user = u, ![p].sid = sid,
                          ![p].current_messages = get_session_messages(db, u, sid)]
    /\ pc' = [pc EXCEPT ![p] = "shown"]
    /\ UNCHANGED <<db, nextId, page, appendLog, last, envVars>>

\* save_message_to_session(username, current_session, "user", prompt)
TabSaveUser(p) ==
    /\ pc[p] = "shown"
    /\ LET prompt == TabPrompt(p, Len(loc[p].sent) \div 2 + 1)
       IN  /\ db' = save_message_to_session(db, loc[p].user, loc[p].sid, "user", prompt)
           /\ loc' = [loc EXCEPT ![p].sent =
                          Append(@, [sid |-> loc[p].sid, content |-> prompt])]
    /\ pc' = [pc EXCEPT ![p] = "saved"]
    /\ UNCHANGED <<nextId, page, appendLog, last, envVars>>

\* if len(current_messages) == 0: the title update
TabTitle(p) ==
    /\ pc[p] = "saved"
    /\ LET prompt == loc[p].sent[Len(loc[p].sent)].content
       IN  db' = IF Len(loc[p].current_messages) = 0
                 THEN UpdateTitle(db, loc[p].user, loc[p].sid, TitleOf(prompt))
                 ELSE db
    /\ pc' = [pc EXCEPT ![p] = "titled"]
    /\ UNCHANGED <<nextId, loc, page, appendLog, last, envVars>>

\* the reply is saved and the script run ends
TabSaveReply(p) ==
    /\ pc[p] = "titled"
    /\ LET prompt == loc[p].sent[Len(loc[p].sent)].content
       IN  /\ db' = save_message_to_session(db, loc[p].user, loc[p].sid, "assistant",
                                            TabReply(prompt))
           /\ loc' = [loc EXCEPT ![p].sent =
                          Append(@, [sid |-> loc[p].sid, content |-> TabReply(prompt)]),
                                 ![p].current_messages = <<>>]
           /\ last' = [Op("send", db, loc[p].user, loc[p].sid) EXCEPT !.content = prompt]
    /\ pc' = [pc EXCEPT ![p] = "idle"]
    /\ UNCHANGED <<nextId, page, appendLog, envVars>>

TabsNext ==
    \/ \E title \in {"New Chat"} : nextId < ApiMaxIds /\ CreateSession(1, "alice", title)
    \/ \E p \in Procs, sid \in SessionIds : TabShow(p, "alice", sid)
    \/ \E p \in Procs : TabSaveUser(p)
    \/ \E p \in Procs : TabTitle(p)
    \/ \E p \in Procs : TabSaveReply(p)

SpecTabs == Init /\ [][TabsNext]_vars

\* the contents, in order, of the elements of a sequence that are in a set
RECURSIVE ContentsIn(_, _)
ContentsIn(entries, wanted) ==
    IF entries = <<>> THEN <<>>
    ELSE (IF entries[1] \in wanted THEN <<entries[1].content>> ELSE <<>>)
            \o ContentsIn(Tail(entries), wanted)

\* C22: when two tabs of one user append to the same session, every message
\* appended is in the session's list once, and the messages of each tab are
\* in the order the tab appended them
C22_ConcurrentAppendsKept ==
    \A p \in Procs :
        \A sid \in SessionIdsOf(get_chat_sessions(db, "alice")) :
            LET stored == get_session_messages(db, "alice", sid)
                mine   == { m \in {stored[i] : i \in 1..Len(stored)} :
                              \E k \in 1..Len(TabSent[p]) :
                                  TabSent[p][k].content = m.content }
                here   == { e \in {TabSent[p][k] : k \in 1..Len(TabSent[p])} :
                              e.sid = sid }
            IN  ContentsIn(stored, mine) = ContentsIn(TabSent[p], here)

\* both tabs have sent to one session and their appends alternate in it
C22_Witness ==
    /\ AllIdle
    /\ \E sid \in SessionIdsOf(get_chat_sessions(db, "alice")) :
          LET stored == get_session_messages(db, "alice", sid) IN
          /\ Len(stored) = 4
          /\ stored[1].content = TabPrompt(1, 1)
          /\ stored[2].content = TabPrompt(2, 1)

\* C23: for every interleaving of two tabs sending to the same empty session,
\* once both sends have completed the session's title is the one derived
\* from the message at position 0 of its list
C23_TitleFromPositionZero ==
    AllIdle =>
        \A sid \in SessionIdsOf(get_chat_sessions(db, "alice")) :
            LET i == IndexOfId(get_chat_sessions(db, "alice"), sid)
                stored == get_session_messages(db, "alice", sid)
            IN  stored # <<>> =>
                  get_chat_sessions(db, "alice")[i].title = TitleOf(stored[1].content)

(***************************************************************************)
(* Properties of every operation of the page                               *)
(***************************************************************************)
\* C24: for each session that exists before and after a step, the messages
\* it had before are a prefix of the messages it has after, role and content
\* unchanged
C24_MessagesAppendOnly ==
    [][ \A u \in Users :
          \A sid \in SessionIdsOf(get_chat_sessions(db, u))
                        \cap SessionIdsOf(get_chat_sessions(db', u)) :
              LET before == RolesContents(get_session_messages(db, u, sid))
                  after  == RolesContents(get_session_messages(db', u, sid))
              IN  /\ Len(before) <= Len(after)
                  /\ SubSeq(after, 1, Len(before)) = before ]_vars

\* a session with messages is left after another session was deleted
C24_Witness ==
    /\ last.op = "delete_current"
    /\ \E i \in 1..Len(get_chat_sessions(db, last.user)) :
          /\ get_chat_sessions(db, last.user)[i].session_id # last.sid
          /\ Len(get_chat_sessions(db, last.user)[i].messages) >= 2

\* C25: a login makes the page logged in only when a record of the username
\* exists, the hash of the password is the stored one and the flag is 1; a
\* rejected login changes neither the store nor the page; a registration
\* stores flag 0
C25_LoginNeedsActiveAccount ==
    [][ /\ \A t \in Tabs, u \in Users, pw \in Passwords :
             Login(t, u, pw) =>
                LET ok == /\ db[u].exists
                          /\ db[u].password = hash_password(pw)
                          /\ db[u].active = 1
                IN  /\ page'[t].logged_in => (ok /\ page'[t].username = u)
                    /\ ~ok => (db' = db /\ page' = page)
        /\ \A t \in Tabs, u \in Users, pw \in Passwords, confirm \in Passwords :
             (Register(t, u, pw, confirm) /\ db'[u] # db[u]) =>
                (~db[u].exists /\ db'[u].active = 0 /\ db'[u].password = hash_password(pw))
      ]_vars

\* the login of a registered account that is not activated was rejected
C25_Witness ==
    /\ last.op = "login_rejected"
    /\ db[last.user].exists
    /\ db[last.user].active = 0
    /\ \A t \in Tabs : ~page[t].logged_in

\* C26: a session operation of the page of user U leaves the record of every
\* other user as it was
C26_OtherUsersUnchanged ==
    [][ \A t \in Tabs :
          ( \/ NewChat(t)
            \/ \E i \in 1..MaxIds : SelectChat(t, i)
            \/ SelectorRerun(t)
            \/ DeleteCurrentChat(t)
            \/ \E prompt \in Prompts, reply \in Replies : Send(t, prompt, reply) )
          => \A v \in Users \ {page[t].username} : db'[v] = db[v] ]_vars

\* bob deleted a chat while alice has sessions and another current session
C26_Witness ==
    /\ last.op = "delete_current"
    /\ last.user = "bob"
    /\ get_chat_sessions(db, "alice") # <<>>
    /\ get_current_session_id(db, "alice") # get_current_session_id(db, "bob")

\* C29: the selector changes the current session only to the session picked:
\* without a pick nothing changes, a pick makes the picked session current,
\* and the session New Chat created is current after the rerun
C29_SelectorFollowsPick ==
    /\ last.op # "selector_rerun"
    /\ last.op \in {"new_chat", "select"} =>
          /\ get_current_session_id(db, last.user) = last.sid
          /\ \A t \in Tabs :
                (page[t].logged_in /\ page[t].username = last.user)
                   => page[t].current_session = last.sid

\* C27: a deleteSession of a session that is not the user's current session
\* leaves the user's current session as it was
C27_DeleteOtherKeepsCurrent ==
    (AllIdle /\ last.op = "delete" /\ last.preCur # last.sid)
       => get_current_session_id(db, last.user) = last.preCur

(***************************************************************************)
(* The admin deletes users while the page is in use                        *)
(***************************************************************************)
\* admin page, Delete on the user card: the first click asks, the second deletes
DeleteUser(u) ==
    /\ db[u].exists
    /\ IF confirm_delete # u
       THEN /\ confirm_delete' = u
            /\ UNCHANGED <<db, last>>
       ELSE /\ confirm_delete' = ""
            /\ db' = [db EXCEPT ![u] = NoDoc]
            /\ last' = [ NoOp EXCEPT !.op = "delete_user", !.user = u ]
    /\ UNCHANGED <<nextId, pc, loc, page, appendLog, now, img, chat, conv, stream>>

AdminNext ==
    \/ \E u \in Users : Register(1, u, "pw1", "pw1")
    \/ \E u \in Users : SetActive(u, 1)
    \/ \E u \in Users : DeleteUser(u)
    \/ \E u \in Users : Login(1, u, "pw1")
    \/ NewChat(1)
    \/ DeleteCurrentChat(1)
    \/ Logout(1)

SpecAdmin == Init /\ [][AdminNext]_vars

\* C28: every user record has a password hash and an activation flag
C28_RecordsHaveCredentials ==
    \A u \in Users :
        db[u].exists => (db[u].password # MissingField /\ db[u].active # MissingFlag)

====
